---- MODULE Spec2Model ----
(***************************************************************************)
(* The Lost & Found Hub front end: the root component LostFoundHub with    *)
(* its item repository (items), session (user, localStorage lf_user),      *)
(* draft post (formData) and the request/response cycles of its handlers.  *)
(*                                                                         *)
(* The repository holds several versions of the root component.  The       *)
(* model runs one of them, chosen when the page is built:                  *)
(*   "App"  src/src/App.tsx                                                *)
(*   "P1"   src/unnamed/part_001            (no session at all)            *)
(*   "P2"   src/unnamed/part_002, 1-501     (session read from storage)    *)
(*   "P3"   src/unnamed/part_003, 1-456     (refetch on length change)     *)
(* A handler that awaits a fetch is two steps: the call up to the fetch    *)
(* (the request joins inflight, carrying what the closure captured) and    *)
(* the continuation that runs when the response arrives.                   *)
(***************************************************************************)
EXTENDS Integers, Sequences, FiniteSets, Bags, TLC

\* ------------------------------------------------------------ bounds
\* requests that may be awaiting their response at the same time
MaxInflight == 2
\* identifiers the server hands out: 1 exists at the start, the rest are
\* assigned to created items
MaxId == 2
\* longest URL the helpers are followed to
MaxUrl == 16

\* ------------------------------------------------------------ values
Variants == {"App", "P1", "P2", "P3"}

\* JavaScript null and undefined (an absent field reads as undefined)
Null == "null"
Undef == "undefined"

\* user = null and selectedItem = null
NoUser == [_id |-> Null, userId |-> Null, apiKey |-> Null]
NoItem == [id |-> -1, ownerId |-> Null]

\* the accounts a sign-in of this client may yield
Users == {"u1"}

\* the items the server holds before this client creates any (posted by
\* another account)
Catalog == {[id |-> 1, ownerId |-> "u0"]}

\* what [newItem.data, ...prevItems] puts in front when the body has no data
UndefinedEntry == [id |-> 0, ownerId |-> Undef]

\* variants that have a session (part_001 has no user state)
HasSession(v) == v # "P1"
\* variants with isLoading / error state
HasLoading(v) == v # "P1"
\* variants with the sign-in dialog (showAuth, pendingPost, AuthModal)
HasAuth(v) == v \in {"App", "P3"}

\* useState<Filter>({ type: 'all', category: 'all' })
DefaultFilter == [type |-> "all", category |-> "all"]

\* ------------------------------------------------------------ state
VARIABLES
  variant,       \* which version of the root component runs
  items,         \* useState<Item[]>: the item repository
  isLoading,     \* useState(true)
  error,         \* useState<string | null>: the load error shown
  view,          \* 'browse' | 'post'
  selectedItem,  \* useState<Item | null>
  user,          \* useState<User | null>: the session
  showAuth,      \* sign-in dialog open
  pendingPost,   \* a post attempt is waiting for the sign-in
  formData,      \* the draft post
  lf_user,       \* localStorage['lf_user']
  inflight,      \* requests sent whose continuation has not run yet
  created,       \* server side: the items created so far
  filter,        \* useState<Filter>({ type: 'all', category: 'all' })
  searchTerm,    \* useState<string>('')
  onlyActive,    \* useState<boolean>(false): the active-only toggle
  helper,        \* which version of the api helper resolves the paths
  API_BASE,      \* import.meta.env.VITE_API_BASE || ''
  url,           \* the path or URL handed to the helper, then its result
  authOpenedBy,  \* history: what opened the sign-in dialog that is shown
  last           \* what the last step was and what it showed the user

vars == <<variant, items, isLoading, error, view, selectedItem, user, showAuth,
          pendingPost, formData, lf_user, inflight, created, filter,
          searchTerm, onlyActive, helper, API_BASE, url, authOpenedBy,
          last>>

\* ------------------------------------------------------------ helpers
Range(s) == {s[i] : i \in DOMAIN s}

Ids(s) == {s[i].id : i \in DOMAIN s}

\* inflight is a bag: the continuations run in any order
Sent(infl, r) == infl (+) SetToBag({r})
\* a continuation that leaves its request in flight (the request is repeated)
Resent(infl, r) == infl
Answered(infl, r) == infl (-) SetToBag({r})
Pending == BagCardinality(inflight)

\* Array.prototype.filter with the predicate (item => item._id !== id)
\* a removal that drops the first entry whatever the identifier
FilterOutHead(s, id) == IF s = <<>> THEN s ELSE Tail(s)

RECURSIVE FilterOut(_, _)
FilterOut(s, id) ==
  IF s = <<>> THEN <<>>
  ELSE IF Head(s).id = id THEN FilterOut(Tail(s), id)
       ELSE <<Head(s)>> \o FilterOut(Tail(s), id)

\* the list GET /api/items carries for a set of stored items: newest first
RECURSIVE NewestFirst(_)
NewestFirst(S) ==
  IF S = {} THEN <<>>
  ELSE LET m == CHOOSE x \in S : \A y \in S : y.id <= x.id
       IN <<m>> \o NewestFirst(S \ {m})

\* the identifier the server assigns to the next created item
NextServerId == Cardinality(Catalog) + Cardinality(created) + 1

\* ------------------------------------------------------------ responses
\* status 0: the fetch promise rejected (transport failure).  body: what
\* response.json() yields: {success: true, data}, {success: false, ...} or a
\* rejection (the body is no JSON).  A status that is not ok never carries
\* success: true.
NetFail == [status |-> 0, body |-> "none"]
Responses ==
  {NetFail}
    \cup [status : {200}, body : {"success", "failure", "nojson"}]
    \cup [status : {404, 500}, body : {"failure", "nojson"}]

NoResp == [status |-> -1, body |-> "none"]

\* Response.ok
Ok(r) == r.status = 200

\* the response is a success response: ok status and success flag true
IsSuccess(r) == Ok(r) /\ r.body = "success"

\* ------------------------------------------------------------ draft
RequiredFields == {"category", "title", "description", "location", "contact"}

DefaultDraft == [f \in RequiredFields |-> ""]
CompleteDraft == [f \in RequiredFields |-> "x"]
\* the drafts PostForm hands to setFormData: every way of filling the
\* required fields; the page as a whole is explored with the two extremes
AllDrafts == [RequiredFields -> {"", "x"}]
Drafts == {DefaultDraft, CompleteDraft}

\* a validation that looks at the title only
MissingTitle(d) == d.title = ""

\* !formData.category || !formData.title || ... (an empty string is falsy)
MissingRequired(d) == \E f \in RequiredFields : d[f] = ""

\* ------------------------------------------------------------ session
\* what AuthModal passes to onSuccess: UserData {userId, name, email, apiKey}
SignedIn(u) == [_id |-> Undef, userId |-> u, apiKey |-> "k1"]

\* the session's identity as the server sees it (the bearer token's owner)
IdentityOf(usr) ==
  IF usr = NoUser THEN Undef
  ELSE IF usr._id # Undef THEN usr._id ELSE usr.userId

\* the "load user from storage" effect
LoadUser(v, raw) ==
  CASE v = "P1" -> NoUser
    [] v \in {"App", "P2"} ->
         IF raw # NoUser /\ raw.apiKey # Undef
            /\ (raw.userId # Undef \/ raw._id # Undef)
         THEN [_id |-> IF raw._id # Undef THEN raw._id ELSE raw.userId,
               userId |-> Undef,
               apiKey |-> raw.apiKey]
         ELSE NoUser
    [] v = "P3" ->
         IF raw # NoUser /\ raw.apiKey # Undef /\ raw.userId # Undef
         THEN raw
         ELSE NoUser

\* user?.apiKey is truthy
HasKey(usr) == usr # NoUser /\ usr.apiKey # Undef

\* ------------------------------------------------------------ requests
\* a request in flight and what its continuation's closure captured:
\*   auth  the Authorization header ("none": no header)
\*   usr   the closure's user
\*   snap  the closure's items (read by part_001's create continuation)
\*   len   the closure's items.length (read by part_003's fetch continuation)
\*   sel   the closure's selectedItem identifier
\*   pend  the closure's pendingPost (read by onSuccess of the sign-in dialog)
Req(op, id, auth, usr, snap, len, sel, pend) ==
  [op |-> op, id |-> id, auth |-> auth, usr |-> usr, snap |-> snap,
   len |-> len, sel |-> sel, pend |-> pend]

Bearer(usr) == IF HasKey(usr) THEN usr.apiKey ELSE "none"

\* fetchItems up to its await
FetchReq(v, usr, its) ==
  Req("fetch", 0,
      IF v = "P2" THEN Bearer(usr) ELSE "none",
      NoUser, <<>>,
      IF v = "P3" THEN Len(its) ELSE 0,
      NoItem.id, FALSE)

\* ------------------------------------------------------------ last step
\* op: the handler; ph: "call" (ran up to its fetch), "refused" (returned
\* before any fetch) or "done" (its continuation ran); ok: the response the
\* continuation observed reported success; data: the item list or the item it
\* carried; alert: what the step showed the user
Step(op, ph, id, resp, data, alert) ==
  [op |-> op, ph |-> ph, id |-> id, ok |-> IsSuccess(resp), data |-> data,
   alert |-> alert]

Ui == Step("ui", "done", 0, NoResp, <<>>, "none")
Mount == Step("mount", "done", 0, NoResp, <<>>, "none")

\* ------------------------------------------------------------ mount
\* The state after the first render and its effects: the fetch effect has
\* called fetchItems, the storage effect has set the user.  In part_002
\* fetchItems depends on user?.apiKey, so setting a user with a key runs the
\* fetch effect a second time.
MountInflight(v, usr) ==
  IF v = "P2" /\ HasKey(usr)
  THEN SetToBag({FetchReq(v, NoUser, <<>>), FetchReq(v, usr, <<>>)})
  ELSE SetToBag({FetchReq(v, NoUser, <<>>)})

Mounted(v, raw) ==
  /\ items' = <<>>
  /\ isLoading' = HasLoading(v)
  /\ error' = Null
  /\ view' = "browse"
  /\ selectedItem' = NoItem
  /\ user' = LoadUser(v, raw)
  /\ showAuth' = FALSE
  /\ pendingPost' = FALSE
  /\ formData' = DefaultDraft
  /\ inflight' = MountInflight(v, LoadUser(v, raw))
  /\ filter' = DefaultFilter
  /\ searchTerm' = <<>>
  /\ onlyActive' = FALSE
  /\ authOpenedBy' = "none"

\* what localStorage may hold when the page is first opened: nothing, or,
\* where the version has no sign-in of its own, a record an earlier visit left
InitialStorage(v) ==
  IF v = "P2" THEN {NoUser, SignedIn("u1")} ELSE {NoUser}

Init ==
  /\ variant \in Variants
  /\ lf_user \in InitialStorage(variant)
  /\ created = {}
  /\ items = <<>>
  /\ isLoading = HasLoading(variant)
  /\ error = Null
  /\ view = "browse"
  /\ selectedItem = NoItem
  /\ user = LoadUser(variant, lf_user)
  /\ showAuth = FALSE
  /\ pendingPost = FALSE
  /\ formData = DefaultDraft
  /\ inflight = MountInflight(variant, LoadUser(variant, lf_user))
  /\ filter = DefaultFilter
  /\ searchTerm = <<>>
  /\ onlyActive = FALSE
  /\ helper = "api.ts"
  /\ API_BASE = <<>>
  /\ url = <<>>
  /\ authOpenedBy = "none"
  /\ last = Mount

\* the user reloads the page: React state is rebuilt, requests in flight lose
\* their continuations, localStorage and the server keep what they hold
Reload ==
  /\ Mounted(variant, lf_user)
  /\ last' = Mount
  /\ UNCHANGED <<variant, lf_user, created, helper, API_BASE, url>>

\* ------------------------------------------------------------ rendering
\* A render of the root component that reads a field of an undefined entry
\* throws; the tree is unmounted and only a reload brings the page back.
Alive == UndefinedEntry \notin Range(items)

\* no dialog covers the page
NoDialog == selectedItem = NoItem /\ ~showAuth

\* the item grid is rendered
GridShown ==
  /\ view = "browse"
  /\ CASE variant = "P1" -> TRUE
       [] variant = "P3" -> ~isLoading
       [] OTHER -> ~isLoading /\ error = Null

\* a commit after which the effect calls fetchItems whatever the length
CommitRefetching(its, ld, err, infl) ==
  /\ items' = its
  /\ isLoading' = TRUE
  /\ error' = Null
  /\ inflight' = Sent(infl, FetchReq("P3", NoUser, its))

\* part_003: fetchItems is rebuilt when items.length changes and the effect
\* that depends on it calls it again.  its, ld, err, infl: what the handler
\* leaves in items, isLoading, error and inflight before the effect runs.
Commit(its, ld, err, infl) ==
  IF variant = "P3" /\ Len(its) # Len(items)
  THEN /\ items' = its
       /\ isLoading' = TRUE
       /\ error' = Null
       /\ inflight' = Sent(infl, FetchReq("P3", NoUser, its))
  ELSE /\ items' = its
       /\ isLoading' = ld
       /\ error' = err
       /\ inflight' = infl

\* ------------------------------------------------------------ loadAll
\* the lists a success response to GET /api/items may carry: what the server
\* holds of the items it ever stored (other clients delete too), newest first
ServerLists == {NewestFirst(S) : S \in SUBSET (Catalog \cup created)}

\* the Retry button calls fetchItems
Retry ==
  /\ Alive /\ NoDialog
  /\ variant \in {"App", "P3"}
  /\ error # Null
  /\ IF variant = "App" THEN view = "browse" /\ ~isLoading ELSE items = <<>>
  /\ Pending < MaxInflight
  /\ isLoading' = TRUE
  /\ error' = Null
  /\ inflight' = Sent(inflight, FetchReq(variant, user, items))
  /\ last' = Step("fetch", "call", 0, NoResp, <<>>, "none")
  /\ UNCHANGED <<authOpenedBy, helper, API_BASE, url, filter, searchTerm,
                 onlyActive,
                 variant, items, view, selectedItem, user, showAuth,
                 pendingPost, formData, lf_user, created>>

\* a load that puts the list in front of what the repository holds
FetchedMerged(resp, list) ==
  IF resp.body = "success" THEN list \o items ELSE <<>>

\* what fetchItems' continuation leaves in items for a response that
\* reached setItems: data.data || []
FetchedItems(resp, list) == IF resp.body = "success" THEN list ELSE <<>>

LoadError == "Failed to load items"

\* src/src/App.tsx fetchItems after the await
FetchDoneApp(rest, resp, list) ==
  IF Ok(resp) /\ resp.body # "nojson"
  THEN Commit(FetchedItems(resp, list), FALSE, error, rest)
  ELSE Commit(items, FALSE, LoadError, rest)

\* part_001 load after the await: a failure is swallowed
FetchDoneP1(rest, resp, list) ==
  IF resp # NetFail /\ resp.body = "success"
  THEN Commit(list, isLoading, error, rest)
  ELSE Commit(items, isLoading, error, rest)

\* part_002 fetchItems after the await
FetchDoneP2(rest, resp, list) ==
  IF Ok(resp) /\ resp.body # "nojson"
  THEN Commit(FetchedItems(resp, list), FALSE, error, rest)
  ELSE Commit(items, FALSE, LoadError, rest)

\* part_003 fetchItems after the await: 404 empties the repository, any
\* other failure shows the error only if the closure's items.length is 0
FetchDoneP3(rest, resp, list, len) ==
  CASE resp.status = 404 -> Commit(<<>>, FALSE, Null, rest)
    [] Ok(resp) /\ resp.body # "nojson" ->
         Commit(FetchedItems(resp, list), FALSE, Null, rest)
    [] OTHER ->
         Commit(items, FALSE, IF len = 0 THEN LoadError ELSE error, rest)

\* fetchItems / load after the await, for the responses Resps a request may
\* get and the lists Lists a success response may carry
Fetched(Resps, Lists) ==
  \E r \in BagToSet(inflight), resp \in Resps, list \in Lists :
    /\ Alive
    /\ r.op = "fetch"
    /\ LET rest == Answered(inflight, r)
           data == IF IsSuccess(resp) THEN list ELSE <<>>
       IN /\ CASE variant = "App" -> FetchDoneApp(rest, resp, data)
               [] variant = "P1" -> FetchDoneP1(rest, resp, data)
               [] variant = "P2" -> FetchDoneP2(rest, resp, data)
               [] variant = "P3" ->
                    FetchDoneP3(rest, resp, data, r.len)
          /\ last' = Step("fetch", "done", 0, resp, data, "none")
    /\ UNCHANGED <<authOpenedBy, helper, API_BASE, url, filter, searchTerm,
                   onlyActive,
                 variant, view, selectedItem, user, showAuth, pendingPost,
                   formData, lf_user, created>>

FetchDone == Fetched(Responses, ServerLists)

\* ------------------------------------------------------------ navigation
\* Header: Browse Items / Post Item.  part_003 routes them through
\* setViewGuard; part_002 only has the post button (handlePostClick).
SetView ==
  \E v \in {"browse", "post"} :
    /\ Alive /\ NoDialog
    /\ variant = "P2" => v = "post"
    /\ IF variant = "P3" /\ v = "post" /\ user = NoUser
       THEN pendingPost' = TRUE /\ showAuth' = TRUE /\ view' = view
       ELSE view' = v /\ UNCHANGED <<pendingPost, showAuth>>
    /\ last' = Ui
    /\ authOpenedBy' = IF showAuth' /\ ~showAuth THEN "post" ELSE authOpenedBy
    /\ UNCHANGED <<helper, API_BASE, url, filter, searchTerm, onlyActive,
                 variant, items, isLoading, error, selectedItem, user,
                   formData, lf_user, inflight, created>>

\* part_003: the "Post a new item" button of the empty grid
PostNewItem ==
  /\ Alive /\ NoDialog
  /\ variant = "P3"
  /\ GridShown /\ items = <<>>
  /\ view' = "post"
  /\ IF user = NoUser
     THEN pendingPost' = TRUE /\ showAuth' = TRUE
     ELSE UNCHANGED <<pendingPost, showAuth>>
  /\ last' = Ui
  /\ authOpenedBy' = IF showAuth' /\ ~showAuth THEN "post" ELSE authOpenedBy
  /\ UNCHANGED <<helper, API_BASE, url, filter, searchTerm, onlyActive,
                 variant, items, isLoading, error, selectedItem, user,
                 formData, lf_user, inflight, created>>

\* a card of the grid is clicked: setSelectedItem(item)
SelectItem ==
  \E i \in DOMAIN items :
    /\ Alive /\ NoDialog
    /\ GridShown
    /\ selectedItem' = items[i]
    /\ last' = Ui
    /\ UNCHANGED <<authOpenedBy, helper, API_BASE, url, filter, searchTerm,
                   onlyActive,
                 variant, items, isLoading, error, view, user, showAuth,
                   pendingPost, formData, lf_user, inflight, created>>

\* ItemModal onClose
CloseItem ==
  /\ Alive
  /\ selectedItem # NoItem
  /\ selectedItem' = NoItem
  /\ last' = Ui
  /\ UNCHANGED <<authOpenedBy, helper, API_BASE, url, filter, searchTerm,
                 onlyActive,
                 variant, items, isLoading, error, view, user, showAuth,
                 pendingPost, formData, lf_user, inflight, created>>

\* PostForm edits the draft: setFormData(d)
EditDraft(D) ==
  \E d \in D :
    /\ Alive /\ NoDialog
    /\ view = "post"
    /\ d # formData
    /\ formData' = d
    /\ last' = Ui
    /\ UNCHANGED <<authOpenedBy, helper, API_BASE, url, filter, searchTerm,
                   onlyActive,
                 variant, items, isLoading, error, view, selectedItem, user,
                   showAuth, pendingPost, lf_user, inflight, created>>

SetFormData == EditDraft(Drafts)

\* ------------------------------------------------------------ sign-in
\* Header onSignIn (the button is rendered while there is no user)
SignIn ==
  /\ Alive /\ NoDialog
  /\ HasAuth(variant)
  /\ user = NoUser
  /\ showAuth' = TRUE
  /\ last' = Ui
  /\ authOpenedBy' = "header"
  /\ UNCHANGED <<helper, API_BASE, url, filter, searchTerm, onlyActive,
                 variant, items, isLoading, error, view, selectedItem, user,
                 pendingPost, formData, lf_user, inflight, created>>

\* AuthModal onClose, by the user
CloseAuth ==
  /\ Alive
  /\ showAuth
  /\ showAuth' = FALSE
  /\ last' = Ui
  /\ authOpenedBy' = "none"
  /\ UNCHANGED <<helper, API_BASE, url, filter, searchTerm, onlyActive,
                 variant, items, isLoading, error, view, selectedItem, user,
                 pendingPost, formData, lf_user, inflight, created>>

\* AuthModal handleSubmit up to its await (the form is valid)
AuthCall ==
  /\ Alive
  /\ showAuth
  /\ Pending < MaxInflight
  /\ inflight' = Sent(inflight, Req("auth", 0, "none", NoUser, <<>>, 0, NoItem.id,
                       pendingPost))
  /\ last' = Step("auth", "call", 0, NoResp, <<>>, "none")
  /\ UNCHANGED <<authOpenedBy, helper, API_BASE, url, filter, searchTerm,
                 onlyActive,
                 variant, items, isLoading, error, view, selectedItem, user,
                 showAuth, pendingPost, formData, lf_user, created>>

\* onSuccess of the sign-in dialog, as the render that built it saw
\* pendingPost, followed by onClose
OnSuccess(u, pend) ==
  /\ user' = SignedIn(u)
  /\ lf_user' = SignedIn(u)
  /\ IF pend
     THEN pendingPost' = FALSE /\ view' = "post"
     ELSE UNCHANGED <<pendingPost, view>>
  /\ showAuth' = FALSE

\* AuthModal handleSubmit after the await
AuthDone ==
  \E r \in BagToSet(inflight), resp \in Responses, u \in Users :
    /\ Alive
    /\ r.op = "auth"
    /\ inflight' = Answered(inflight, r)
    /\ IF IsSuccess(resp)
       THEN /\ OnSuccess(u, r.pend)
            /\ last' = Step("auth", "done", 0, resp, <<>>, "none")
       ELSE /\ UNCHANGED <<user, lf_user, pendingPost, view, showAuth>>
            /\ last' = Step("auth", "done", 0, resp, <<>>, "auth-error")
    /\ authOpenedBy' = IF showAuth' THEN authOpenedBy ELSE "none"
    /\ UNCHANGED <<helper, API_BASE, url, filter, searchTerm, onlyActive,
                 variant, items, isLoading, error, selectedItem, formData,
                   created>>

\* Header onSignOut / handleSignOut / handleLogout.  In part_002 fetchItems
\* depends on user?.apiKey, so dropping a user with a key refetches.
SignOut ==
  /\ Alive /\ NoDialog
  /\ HasSession(variant)
  /\ user # NoUser
  /\ user' = NoUser
  /\ lf_user' = IF variant = "App" THEN lf_user ELSE NoUser
  /\ view' = IF variant = "P3" THEN "browse" ELSE view
  /\ IF variant = "P2" /\ HasKey(user)
     THEN /\ Pending < MaxInflight
          /\ isLoading' = TRUE
          /\ error' = Null
          /\ inflight' = Sent(inflight, FetchReq("P2", NoUser, items))
     ELSE UNCHANGED <<isLoading, error, inflight>>
  /\ last' = Ui
  /\ UNCHANGED <<authOpenedBy, helper, API_BASE, url, filter, searchTerm,
                 onlyActive,
                 variant, items, selectedItem, showAuth, pendingPost,
                 formData, created>>

\* ------------------------------------------------------------ resolve, delete
\* The canManage prop handed to ItemModal with onResolve and onDelete; the
\* dialog renders the two buttons only under it.  part_001 hands the two
\* handlers over with no such prop.
CanManage(v, usr, item) ==
  CASE v = "App" ->
         usr # NoUser /\ item.ownerId # Undef /\ item.ownerId = usr._id
    [] v = "P3" ->
         usr # NoUser /\ item.ownerId # Undef /\ item.ownerId = usr.userId
    [] v = "P2" -> (IF usr = NoUser THEN Undef ELSE usr._id) = item.ownerId
    [] v = "P1" -> TRUE

\* the early return of handleResolve / handleDelete: if (!user?.apiKey) return
ManageGuard(v, usr) == v \in {"App", "P2"} => HasKey(usr)

\* the request handleResolve / handleDelete sends; sel: the selectedItem its
\* closure holds
ManageReq(v, op, id, usr, sel) ==
  Req(op, id, IF v = "P1" THEN "none" ELSE Bearer(usr), NoUser, <<>>, 0,
      sel, FALSE)

\* ItemModal.tsx, the dialog App.tsx renders: handleResolve / handleDelete
\* call onResolve() / onDelete() and show toast.success when the call returns,
\* which is when the handler reaches its await or its early return.  The
\* dialog of the other versions (part_004) hands the click to the handler.
DialogToast(v) == IF v = "App" THEN "success-toast" ELSE "none"

\* handleResolve(id) / handleDelete(id) up to the await.  sel: the closure's
\* selectedItem; after: the selectedItem the caller leaves.
ManageCall(op, id, sel, after) ==
  /\ selectedItem' = after
  /\ IF ManageGuard(variant, user)
     THEN /\ Pending < MaxInflight
          /\ inflight' =
               Sent(inflight, ManageReq(variant, op, id, user, sel))
          /\ last' = Step(op, "call", id, NoResp, <<>>, DialogToast(variant))
     ELSE /\ inflight' = inflight
          /\ last' = Step(op, "refused", id, NoResp, <<>>,
                          DialogToast(variant))
  /\ UNCHANGED <<authOpenedBy, helper, API_BASE, url, filter, searchTerm,
                 onlyActive,
                 variant, items, isLoading, error, view, user, showAuth,
                 pendingPost, formData, lf_user, created>>

\* the Resolve / Delete button of the item dialog (the confirm is accepted).
\* part_002 closes the dialog right after calling the handler.
ManageItem ==
  \E op \in {"resolve", "delete"} :
    /\ Alive
    /\ selectedItem # NoItem /\ ~showAuth
    /\ CanManage(variant, user, selectedItem)
    /\ ManageCall(op, selectedItem.id, selectedItem.id,
                  IF variant = "P2" THEN NoItem ELSE selectedItem)

\* part_002: the delete button of an item card, rendered for the owner
\* (ItemCard isOwner)
CardDelete ==
  \E i \in DOMAIN items :
    /\ Alive /\ NoDialog
    /\ variant = "P2"
    /\ GridShown
    /\ user # NoUser /\ user._id # Undef
    /\ items[i].ownerId # Undef /\ items[i].ownerId = user._id
    /\ ManageCall("delete", items[i].id, NoItem.id, selectedItem)

\* the continuation took the response for a success
ManageOk(v, resp) ==
  IF v \in {"App", "P2"} THEN Ok(resp)
  ELSE resp # NetFail /\ resp.body = "success"

\* the selection after a confirmed resolve / delete: App.tsx and part_002
\* clear it if the closure's selectedItem is the item, the others always
SelectionAfter(v, r, cur) ==
  IF v \in {"App", "P2"}
  THEN IF r.sel = r.id THEN NoItem ELSE cur
  ELSE NoItem

\* handleResolve / handleDelete after the await
ManageDone ==
  \E r \in BagToSet(inflight), resp \in Responses :
    LET rest == Answered(inflight, r)
    IN /\ Alive
       /\ r.op \in {"resolve", "delete"}
       /\ IF ManageOk(variant, resp)
          THEN /\ Commit(FilterOut(items, r.id), isLoading, error, rest)
               /\ selectedItem' = SelectionAfter(variant, r, selectedItem)
               /\ last' = Step(r.op, "done", r.id, resp, <<>>, "none")
          ELSE /\ Commit(items, isLoading, error, rest)
               /\ selectedItem' = selectedItem
               /\ last' = Step(r.op, "done", r.id, resp, <<>>, "failed")
       /\ UNCHANGED <<authOpenedBy, helper, API_BASE, url, filter, searchTerm,
                      onlyActive,
                 variant, view, user, showAuth, pendingPost, formData,
                      lf_user, created>>

\* ------------------------------------------------------------ create
\* the item the server stores for a create request: a fresh id, owned by the
\* identity the request authenticates
Saved(r) ==
  [id |-> NextServerId,
   ownerId |-> IF r.auth = "none" THEN Undef ELSE IdentityOf(r.usr)]

\* handleSubmit up to the fetch.  part_001 captures items in the closure of
\* its continuation.
CreateCall ==
  /\ Alive /\ NoDialog
  /\ view = "post"
  /\ CASE HasSession(variant) /\ user = NoUser ->
            /\ pendingPost' = (IF HasAuth(variant) THEN TRUE ELSE pendingPost)
            /\ showAuth' = (IF HasAuth(variant) THEN TRUE ELSE showAuth)
            /\ inflight' = inflight
            /\ last' = Step("create", "refused", 0, NoResp, <<>>, "none")
       [] ~(HasSession(variant) /\ user = NoUser)
            /\ MissingRequired(formData) ->
            /\ UNCHANGED <<pendingPost, showAuth, inflight>>
            /\ last' = Step("create", "refused", 0, NoResp, <<>>, "validation")
       [] OTHER ->
            /\ Pending < MaxInflight
            /\ inflight' =
                 Sent(inflight,
                      Req("create", 0, Bearer(user), user,
                          IF variant = "P1" THEN items ELSE <<>>, 0,
                          NoItem.id, FALSE))
            /\ UNCHANGED <<pendingPost, showAuth>>
            /\ last' = Step("create", "call", 0, NoResp, <<>>, "none")
  /\ authOpenedBy' = IF showAuth' /\ ~showAuth THEN "post" ELSE authOpenedBy
  /\ UNCHANGED <<helper, API_BASE, url, filter, searchTerm, onlyActive,
                 variant, items, isLoading, error, view, selectedItem, user,
                 formData, lf_user, created>>

\* the continuation of handleSubmit took the response for a success
CreateOk(v, resp) ==
  IF v \in {"App", "P2"} THEN Ok(resp) /\ resp.body # "nojson"
  ELSE resp # NetFail /\ resp.body = "success"

\* what the continuation puts in front of the list: App.tsx and part_002
\* read newItem.data whatever the body says
Inserted(v, resp, saved) ==
  IF resp.body = "success" THEN saved ELSE UndefinedEntry

\* an insertion in front of the items of the render that submitted
CreateBaseStale(v, r, cur) == r.snap

\* the list the new entry is put in front of: prevItems, or in part_001 the
\* items of the render that submitted
CreateBase(v, r, cur) == IF v = "P1" THEN r.snap ELSE cur

\* handleSubmit after the await
CreateDone ==
  \E r \in BagToSet(inflight), resp \in Responses :
    LET rest == Answered(inflight, r)
        saved == Saved(r)
    IN /\ Alive
       /\ r.op = "create"
       /\ IsSuccess(resp) => NextServerId <= MaxId
       /\ created' = (IF IsSuccess(resp) THEN created \cup {saved} ELSE created)
       /\ IF CreateOk(variant, resp)
          THEN /\ Commit(<<Inserted(variant, resp, saved)>>
                           \o CreateBase(variant, r, items),
                         isLoading, error, rest)
               /\ formData' = DefaultDraft
               /\ view' = "browse"
               /\ last' = Step("create", "done", Inserted(variant, resp, saved).id,
                               resp, <<Inserted(variant, resp, saved)>>,
                               IF variant \in {"App", "P2"} THEN "posted"
                               ELSE "none")
          ELSE /\ Commit(items, isLoading, error, rest)
               /\ UNCHANGED <<formData, view>>
               /\ last' = Step("create", "done", 0, resp, <<>>, "failed")
       /\ UNCHANGED <<authOpenedBy, helper, API_BASE, url, filter, searchTerm,
                      onlyActive,
                 variant, selectedItem, user, showAuth, pendingPost,
                      lf_user>>

\* ------------------------------------------------------------ rotate key
\* the credential the server mints in place of k
NewKey(k) == IF k = "k2" THEN "k1" ELSE "k2"

\* the early return of rotateApiKey / handleRotateKey
RotateGuard(v, usr) == IF v = "App" THEN HasKey(usr) ELSE usr # NoUser

\* rotateApiKey / handleRotateKey up to the await (the confirm is accepted)
RotateCall ==
  /\ Alive /\ NoDialog
  /\ variant \in {"App", "P3"}
  /\ IF RotateGuard(variant, user)
     THEN /\ Pending < MaxInflight
          /\ inflight' =
               Sent(inflight,
                    Req("rotate", 0, Bearer(user), user, <<>>, 0, NoItem.id,
                        FALSE))
          /\ last' = Step("rotate", "call", 0, NoResp, <<>>, "none")
     ELSE /\ inflight' = inflight
          /\ last' = Step("rotate", "refused", 0, NoResp, <<>>, "none")
  /\ UNCHANGED <<authOpenedBy, helper, API_BASE, url, filter, searchTerm,
                 onlyActive,
                 variant, items, isLoading, error, view, selectedItem, user,
                 showAuth, pendingPost, formData, lf_user, created>>

\* the continuation took the response for a success
RotateOk(v, resp) ==
  IF v = "App" THEN Ok(resp) /\ resp.body # "nojson"
  ELSE resp # NetFail /\ resp.body = "success"

\* the Session a successful rotate-key response carries as its data: the
\* identity of the request's credential with the new credential
RotateData(r) ==
  [_id |-> Undef, userId |-> IdentityOf(r.usr),
   apiKey |-> NewKey(r.usr.apiKey)]

\* the session the continuation stores; the body is {success, data: Session}:
\* App.tsx reads data.apiKey of it, part_003 stores its data
Rotated(v, r) ==
  IF v = "App" THEN [r.usr EXCEPT !.apiKey = Undef]
  ELSE RotateData(r)

\* rotateApiKey / handleRotateKey after the await
RotateDone ==
  \E r \in BagToSet(inflight), resp \in Responses :
    /\ Alive
    /\ r.op = "rotate"
    /\ inflight' = Answered(inflight, r)
    /\ IF RotateOk(variant, resp)
       THEN /\ user' = Rotated(variant, r)
            /\ lf_user' = Rotated(variant, r)
            /\ last' = Step("rotate", "done", 0, resp,
                            IF IsSuccess(resp) THEN <<RotateData(r)>>
                            ELSE <<>>,
                            "rotated")
       ELSE /\ UNCHANGED <<user, lf_user>>
            /\ last' = Step("rotate", "done", 0, resp, <<>>, "failed")
    /\ UNCHANGED <<authOpenedBy, helper, API_BASE, url, filter, searchTerm,
                   onlyActive,
                 variant, items, isLoading, error, view, selectedItem,
                   showAuth, pendingPost, formData, created>>

Next ==
  \/ Reload
  \/ Retry
  \/ FetchDone
  \/ SetView
  \/ PostNewItem
  \/ SelectItem
  \/ CloseItem
  \/ SetFormData
  \/ SignIn
  \/ CloseAuth
  \/ AuthCall
  \/ AuthDone
  \/ SignOut
  \/ ManageItem
  \/ CardDelete
  \/ ManageDone
  \/ CreateCall
  \/ CreateDone
  \/ RotateCall
  \/ RotateDone

Spec == Init /\ [][Next]_vars

\* ------------------------------------------------------------ the post form
\* The form on its own, with every draft PostForm can hand over: the page
\* shows the form, no dialog is open, no request is in flight.
\* <<user, lf_user, pendingPost>> as the variant can hold them while the form
\* is shown (part_003 shows the form to a visitor only through the button of
\* the empty grid, which sets pendingPost)
FormSessions(v) ==
  CASE v = "P1" -> {<<NoUser, NoUser, FALSE>>}
    [] v = "P2" -> {<<NoUser, NoUser, FALSE>>,
                    <<LoadUser(v, SignedIn("u1")), SignedIn("u1"), FALSE>>}
    [] v = "App" -> {<<NoUser, NoUser, FALSE>>,
                     <<SignedIn("u1"), SignedIn("u1"), FALSE>>,
                     <<LoadUser(v, SignedIn("u1")), SignedIn("u1"), FALSE>>}
    [] v = "P3" -> {<<NoUser, NoUser, TRUE>>,
                    <<SignedIn("u1"), SignedIn("u1"), FALSE>>}

InitForm ==
  /\ variant \in Variants
  /\ \E ses \in FormSessions(variant) :
       user = ses[1] /\ lf_user = ses[2] /\ pendingPost = ses[3]
  /\ items \in {<<>>, NewestFirst(Catalog)}
  /\ formData \in AllDrafts
  /\ created = {}
  /\ isLoading = FALSE
  /\ error = Null
  /\ view = "post"
  /\ selectedItem = NoItem
  /\ showAuth = FALSE
  /\ inflight = EmptyBag
  /\ filter = DefaultFilter
  /\ searchTerm = <<>>
  /\ onlyActive = FALSE
  /\ helper = "api.ts"
  /\ API_BASE = <<>>
  /\ url = <<>>
  /\ authOpenedBy = "none"
  /\ last = Ui

SetAnyFormData == EditDraft(AllDrafts)

NextForm ==
  \/ SetAnyFormData
  \/ CreateCall

SpecForm == InitForm /\ [][NextForm]_vars

\* ------------------------------------------------------------ startup
\* What localStorage 'lf_user' may hold when the page starts, besides nothing
\* (NoUser) and a stored object: text JSON.parse rejects, the text
\* 'undefined' (what setItem stores for an undefined value), and JSON that is
\* no object (null).
Unparseable == [_id |-> "garbage", userId |-> "garbage", apiKey |-> "garbage"]
UndefinedText == [_id |-> "undefined text", userId |-> "undefined text",
                  apiKey |-> "undefined text"]
JsonNull == [_id |-> "json null", userId |-> "json null",
             apiKey |-> "json null"]

\* stored objects: each field present or absent
StoredObjects ==
  [_id : {Undef, "u1"}, userId : {Undef, "u1", "u2"},
   apiKey : {Undef, "k1", "k2"}]

StoredPayloads ==
  {NoUser, Unparseable, UndefinedText, JsonNull} \cup StoredObjects

\* the user the load effect leaves for the payload raw
StartupUser(v, raw) ==
  IF raw \in {Unparseable, UndefinedText, JsonNull} THEN NoUser
  ELSE LoadUser(v, raw)

\* what the load effect leaves in storage: App.tsx and part_002 remove the
\* payload in the catch of JSON.parse and skip the text 'undefined';
\* part_003 has an empty catch
StartupStorage(v, raw) ==
  IF raw = Unparseable /\ v \in {"App", "P2"} THEN NoUser ELSE raw

\* the page before its effects have run
Boot == Step("boot", "done", 0, NoResp, <<>>, "none")

InitLoad ==
  /\ variant \in {v \in Variants : HasSession(v)}
  /\ lf_user \in StoredPayloads
  /\ user = NoUser
  /\ items = <<>>
  /\ created = {}
  /\ isLoading = HasLoading(variant)
  /\ error = Null
  /\ view = "browse"
  /\ selectedItem = NoItem
  /\ showAuth = FALSE
  /\ pendingPost = FALSE
  /\ formData = DefaultDraft
  /\ inflight = EmptyBag
  /\ filter = DefaultFilter
  /\ searchTerm = <<>>
  /\ onlyActive = FALSE
  /\ helper = "api.ts"
  /\ API_BASE = <<>>
  /\ url = <<>>
  /\ authOpenedBy = "none"
  /\ last = Boot

\* the mount effects: the load of the user and the first fetch
Startup ==
  /\ last = Boot
  /\ user' = StartupUser(variant, lf_user)
  /\ lf_user' = StartupStorage(variant, lf_user)
  /\ inflight' = MountInflight(variant, StartupUser(variant, lf_user))
  /\ last' = Mount
  /\ UNCHANGED <<authOpenedBy, helper, API_BASE, url, filter, searchTerm,
                 onlyActive,
                 variant, items, isLoading, error, view, selectedItem,
                 showAuth, pendingPost, formData, created>>

NextLoad ==
  \/ Startup

SpecLoad == InitLoad /\ [][NextLoad]_vars

\* ------------------------------------------------------------ filters
\* Text is a sequence of characters.  The alphabet has a letter in both
\* cases, a second letter, a letter no listed item carries and the space.
Lower(c) ==
  CASE c = "A" -> "a" [] c = "B" -> "b" [] c = "H" -> "h" [] c = "T" -> "t"
    [] c = "P" -> "p" [] c = "S" -> "s" [] OTHER -> c

RECURSIVE toLowerCase(_)
toLowerCase(s) ==
  IF s = <<>> THEN <<>> ELSE <<Lower(Head(s))>> \o toLowerCase(Tail(s))

RECURSIVE trimStart(_)
trimStart(s) ==
  IF s # <<>> /\ Head(s) = " " THEN trimStart(Tail(s)) ELSE s

RECURSIVE trimEnd(_)
trimEnd(s) ==
  IF s # <<>> /\ s[Len(s)] = " " THEN trimEnd(SubSeq(s, 1, Len(s) - 1))
  ELSE s

trim(s) == trimEnd(trimStart(s))

\* String.prototype.includes
includes(text, q) ==
  \E i \in 0..(Len(text) - Len(q)) : SubSeq(text, i + 1, i + Len(q)) = q

\* variants with the search box and the active-only toggle (FiltersBar)
HasSearch(v) == v \in {"P1", "P3"}

\* the text the items are searched for
Query(v, term) ==
  IF HasSearch(v) THEN toLowerCase(trim(term)) ELSE toLowerCase(term)

matchesType(item, f) == f.type = "all" \/ item.type = f.type

matchesCategory(item, f) == f.category = "all" \/ item.category = f.category

\* part_002 has no search term; App.tsx does not look at the location
matchesSearch(v, item, term) ==
  \/ v = "P2"
  \/ Query(v, term) = <<>>
  \/ includes(toLowerCase(item.title), Query(v, term))
  \/ includes(toLowerCase(item.description), Query(v, term))
  \/ HasSearch(v) /\ includes(toLowerCase(item.location), Query(v, term))

\* a status test that lets every item through
matchesAnyStatus(v, item, only) == TRUE

\* App.tsx and part_002 have no active-only state
matchesStatus(v, item, only) ==
  ~HasSearch(v) \/ ~only \/ item.status = "active"

Shown(item) ==
  /\ matchesType(item, filter)
  /\ matchesCategory(item, filter)
  /\ matchesSearch(variant, item, searchTerm)
  /\ matchesStatus(variant, item, onlyActive)

\* what the grid renders
filteredItems == SelectSeq(items, Shown)

\* the options of the two selectors and the keys of the statistics
Types == {"all", "lost", "found"}
Categories == {"Keys", "Phone"}
StatKeys == {"active", "lost", "found"}

\* what the visitor may type into the search box
SearchTerms ==
  {<<>>, <<"a">>, <<"A", "b">>, <<" ">>, <<" ", "b">>, <<"a", " ">>, <<"c">>}

\* the items a loaded repository may hold
Listed ==
  {[id |-> 1, type |-> "lost", category |-> "Keys", title |-> <<"A", "b">>,
    description |-> <<"b">>, location |-> <<"a", " ", "b">>,
    status |-> "active"],
   [id |-> 2, type |-> "found", category |-> "Phone", title |-> <<"b">>,
    description |-> <<"B">>, location |-> <<"A">>, status |-> "resolved"],
   [id |-> 3, type |-> "lost", category |-> "Phone", title |-> <<"B", "a">>,
    description |-> <<"a">>, location |-> <<"b">>, status |-> "active"]}

\* a loaded repository: listed items, each once, in any order
Repositories ==
  {r \in UNION {[1..n -> Listed] : n \in 0..Cardinality(Listed)} :
     \A i, j \in DOMAIN r : r[i] = r[j] => i = j}

\* the browse page after the load, with no session and no dialog
InitFilter ==
  /\ variant \in Variants
  /\ items \in Repositories
  /\ filter = DefaultFilter
  /\ searchTerm = <<>>
  /\ onlyActive = FALSE
  /\ user = NoUser
  /\ lf_user = NoUser
  /\ created = {}
  /\ isLoading = FALSE
  /\ error = Null
  /\ view = "browse"
  /\ selectedItem = NoItem
  /\ showAuth = FALSE
  /\ pendingPost = FALSE
  /\ formData = DefaultDraft
  /\ inflight = EmptyBag
  /\ helper = "api.ts"
  /\ API_BASE = <<>>
  /\ url = <<>>
  /\ authOpenedBy = "none"
  /\ last = Ui

Browsing(op, key) ==
  /\ last' = Step(op, "done", 0, NoResp, <<key>>, "none")
  /\ UNCHANGED <<variant, items, isLoading, error, view, selectedItem, user,
                 showAuth, pendingPost, formData, lf_user, inflight, created,
                 helper, API_BASE, url,
                 authOpenedBy>>

\* FiltersBar: onChange of the search box
SetSearchTerm ==
  /\ HasSearch(variant)
  /\ view = "browse"
  /\ \E t \in SearchTerms \ {searchTerm} : searchTerm' = t
  /\ UNCHANGED <<filter, onlyActive>>
  /\ Browsing("setSearchTerm", "none")

\* what one change of one selector hands to setFilter
Selectable(f) ==
  {[f EXCEPT !.type = t] : t \in Types \ {f.type}}
    \cup {[f EXCEPT !.category = c] :
            c \in (Categories \cup {"all"}) \ {f.category}}

\* the type and category selectors: FiltersBar in part_001 and part_003, the
\* two select elements of part_002
SetFilter ==
  /\ variant # "App"
  /\ view = "browse"
  /\ \E f \in Selectable(filter) : filter' = f
  /\ onlyActive' = FALSE
  /\ UNCHANGED searchTerm
  /\ Browsing("setFilter", "none")

\* StatsCards onSelect
OnSelect ==
  /\ variant # "P2"
  /\ view = "browse"
  /\ \E key \in StatKeys :
       /\ filter' = [filter EXCEPT
                       !.type = IF key = "active" THEN "all" ELSE key]
       /\ onlyActive' = (HasSearch(variant) /\ key = "active")
       /\ Browsing("onSelect", key)
  /\ UNCHANGED searchTerm

\* part_003: "Or clear all filters" under the empty grid
ClearAllFilters ==
  /\ variant = "P3"
  /\ GridShown
  /\ filteredItems = <<>>
  /\ searchTerm # <<>>
  /\ searchTerm' = <<>>
  /\ filter' = DefaultFilter
  /\ UNCHANGED onlyActive
  /\ Browsing("clearAllFilters", "none")

NextFilter ==
  \/ SetSearchTerm
  \/ SetFilter
  \/ OnSelect
  \/ ClearAllFilters

SpecFilter == InitFilter /\ [][NextFilter]_vars

\* ------------------------------------------------------------ api paths
\* Paths, bases and URLs are sequences of characters.
Slash == <<"/">>
Http == <<"h", "t", "t", "p", ":", "/", "/">>
Https == <<"h", "t", "t", "p", "s", ":", "/", "/">>
HttpUpper == <<"H", "T", "T", "P", ":", "/", "/">>
Host == <<"x">>
ApiPrefix == <<"/", "a", "p", "i">>
ItemsPath == <<"i">>

\* String.prototype.startsWith
startsWith(s, pre) == Len(pre) <= Len(s) /\ SubSeq(s, 1, Len(pre)) = pre

\* /^https?:\/\//i.test(path)
IsAbsolute(path) ==
  \/ startsWith(toLowerCase(path), Http)
  \/ startsWith(toLowerCase(path), Https)

\* replace(/^\/+/, '')
RECURSIVE dropLeadingSlashes(_)
dropLeadingSlashes(s) ==
  IF s # <<>> /\ Head(s) = "/" THEN dropLeadingSlashes(Tail(s)) ELSE s

\* replace(/\/+$/, '')
RECURSIVE dropTrailingSlashes(_)
dropTrailingSlashes(s) ==
  IF s # <<>> /\ s[Len(s)] = "/"
  THEN dropTrailingSlashes(SubSeq(s, 1, Len(s) - 1))
  ELSE s

\* replace(/^\/+|\/+$/g, '')
cleanPath(path) == dropTrailingSlashes(dropLeadingSlashes(path))

\* utils/api.ts
apiUtils(base, path) ==
  LET cleanBase == dropTrailingSlashes(base)
  IN IF cleanBase = <<>> THEN Slash \o cleanPath(path)
     ELSE IF IsAbsolute(path) THEN path
     ELSE IF startsWith(path, cleanBase) THEN path
     ELSE cleanBase \o Slash \o cleanPath(path)

\* the helper App.tsx declares for itself
apiApp(path) ==
  IF startsWith(path, <<"h", "t", "t", "p">>) THEN path
  ELSE ApiPrefix \o (IF startsWith(path, Slash) THEN <<>> ELSE Slash) \o path

\* the earlier utils/api.ts
apiConcat(base, path) == base \o path

Helpers == {"api.ts", "App.tsx", "part_003"}

api(h, base, path) ==
  CASE h = "api.ts" -> apiUtils(base, path)
    [] h = "App.tsx" -> apiApp(path)
    [] h = "part_003" -> apiConcat(base, path)

\* utils/api.ts
fileUrl(base, path) ==
  IF path = <<>> THEN <<>>
  ELSE IF IsAbsolute(path) THEN path
  ELSE IF base = <<>> THEN Slash \o dropLeadingSlashes(path)
  ELSE base \o Slash \o dropLeadingSlashes(path)

\* the values VITE_API_BASE may be given
Bases ==
  {<<>>, ApiPrefix, ApiPrefix \o Slash, Http \o Host,
   Https \o Host \o ApiPrefix}

\* the paths and URLs the helpers may be handed
Paths ==
  {<<>>, Slash, ItemsPath, Slash \o ItemsPath, ItemsPath \o Slash,
   Slash \o Slash \o ItemsPath, ApiPrefix \o Slash \o ItemsPath,
   Http \o Host \o Slash \o ItemsPath, Https \o Host \o ApiPrefix,
   HttpUpper \o Host \o Slash, <<"h", "t", "t", "p", "d">>}

InitApi ==
  /\ helper \in Helpers
  /\ API_BASE \in Bases
  /\ url \in Paths
  /\ variant = "App"
  /\ items = <<>>
  /\ filter = DefaultFilter
  /\ searchTerm = <<>>
  /\ onlyActive = FALSE
  /\ user = NoUser
  /\ lf_user = NoUser
  /\ created = {}
  /\ isLoading = FALSE
  /\ error = Null
  /\ view = "browse"
  /\ selectedItem = NoItem
  /\ showAuth = FALSE
  /\ pendingPost = FALSE
  /\ formData = DefaultDraft
  /\ inflight = EmptyBag
  /\ authOpenedBy = "none"
  /\ last = Ui

Resolving(op) ==
  /\ last' = Step(op, "done", 0, NoResp, <<url>>, "none")
  /\ UNCHANGED <<variant, items, isLoading, error, view, selectedItem, user,
                 showAuth, pendingPost, formData, lf_user, inflight, created,
                 filter, searchTerm, onlyActive, helper, API_BASE,
                 authOpenedBy>>

\* the helper is applied to what the client holds
Api ==
  /\ Len(api(helper, API_BASE, url)) <= MaxUrl
  /\ url' = api(helper, API_BASE, url)
  /\ Resolving("api")

FileUrl ==
  /\ helper = "api.ts"
  /\ Len(fileUrl(API_BASE, url)) <= MaxUrl
  /\ url' = fileUrl(API_BASE, url)
  /\ Resolving("fileUrl")

NextApi ==
  \/ Api
  \/ FileUrl

SpecApi == InitApi /\ [][NextApi]_vars

\* ------------------------------------------------------------ refetch chain
\* part_003 after one change of the repository, left to itself: the user does
\* nothing, the server keeps its list, every request is answered.
\* A response the client reads a list from reports the list the server holds:
\* no 404 ("no items exist yet") and no body without data while the server
\* holds items.  The other failures may hit any request.
SteadyResponses ==
  {resp \in Responses :
     (resp.status = 404 \/ (Ok(resp) /\ resp.body # "nojson"))
       => resp.body = "success"}

\* the item this client may have created before
EarlierCreated == {[id |-> MaxId, ownerId |-> "u1"]}

\* the repository right after the change: items of the server's list, in the
\* server's order (the client only ever takes the list, prepends a created
\* item or filters one out)
ChangedLists(crt) == {NewestFirst(S) : S \in SUBSET (Catalog \cup crt)}

\* the requests in flight right after the change: the fetch the effect has
\* just sent for the new length and, where the client has changed the list
\* itself before, possibly an earlier fetch still unanswered
ChainsInFlight(its, crt) ==
  {SetToBag({FetchReq("P3", NoUser, its)})}
    \cup {SetToBag({FetchReq("P3", NoUser, its)})
            (+) SetToBag({FetchReq("P3", NoUser, old)}) :
          old \in IF crt = {} THEN {} ELSE ChangedLists(crt)}

InitRefetch ==
  /\ variant = "P3"
  /\ created \in SUBSET EarlierCreated
  /\ items \in ChangedLists(created)
  /\ inflight \in ChainsInFlight(items, created)
  /\ isLoading = TRUE
  /\ error = Null
  /\ \E u \in {NoUser, SignedIn("u1")} : user = u /\ lf_user = u
  /\ view = "browse"
  /\ selectedItem = NoItem
  /\ showAuth = FALSE
  /\ pendingPost = FALSE
  /\ formData = DefaultDraft
  /\ filter = DefaultFilter
  /\ searchTerm = <<>>
  /\ onlyActive = FALSE
  /\ helper = "api.ts"
  /\ API_BASE = <<>>
  /\ url = <<>>
  /\ authOpenedBy = "none"
  /\ last = Ui

FetchDoneSteady == Fetched(SteadyResponses, {NewestFirst(Catalog \cup created)})

NextRefetch ==
  \/ FetchDoneSteady

\* every request is answered, or fails, in the end
SpecRefetch ==
  InitRefetch /\ [][NextRefetch]_vars /\ WF_vars(FetchDoneSteady)

\* ------------------------------------------------------------ properties
Mutations == {"create", "resolve", "delete"}
Removals == {"resolve", "delete"}

\* C1: for every create, resolve and delete action the repository is changed
\* by the action only in the step that observed a successful response to its
\* request: never at dispatch, on a refusal, or on a response that is no
\* success response.
C1_MutationOnlyAfterSuccess ==
  [][(last'.op \in Mutations /\ items' # items)
       => (last'.ph = "done" /\ last'.ok)]_vars

\* C2: when a create, resolve or delete request ends in a transport failure
\* or in a response that is no success response, the repository is what it
\* was before and an error message is shown.
C2_FailureLeavesRepository ==
  [][(last'.op \in Mutations /\ last'.ph = "done" /\ ~last'.ok)
       => (items' = items /\ last'.alert = "failed")]_vars

\* C3: with several actions in flight, no completion undoes the effect of
\* another: after a confirmed resolve or delete of an item the next completion
\* does not bring the item back, and after a confirmed create the next
\* completion, unless it removes that very item, leaves the created item in
\* the repository.
C3_NoLostUpdate ==
  [][(/\ last.op \in Mutations /\ last.ph = "done" /\ last.ok
      /\ last'.op \in Mutations /\ last'.ph = "done")
       => /\ last.op \in Removals => last.id \notin Ids(items')
          /\ (last.op = "create"
                /\ ~(last'.op \in Removals /\ last'.id = last.id))
               => last.id \in Ids(items')]_vars

\* C4: when loadAll ends in a transport failure or a non-success response,
\* the repository keeps its contents and a load error is raised.
C4_LoadFailureKeepsContents ==
  [][(last'.op = "fetch" /\ last'.ph = "done" /\ ~last'.ok)
       => (items' = items /\ error' # Null)]_vars

\* C5: after a loadAll that receives a success response the repository is
\* exactly the list the response carried, whatever it held before, and the
\* load raises no error.
C5_LoadSuccessReplaces ==
  [][(last'.op = "fetch" /\ last'.ph = "done" /\ last'.ok)
       => (items' = last'.data /\ error' \in {error, Null})]_vars

\* a successful load of the empty list after this client created an item
C5_EmptyListReplacesContents ==
  /\ last.op = "fetch" /\ last.ph = "done" /\ last.ok
  /\ last.data = <<>> /\ items = <<>>
  /\ created # {}
  /\ error = Null

C10_RemoveById ==
  [][(/\ last'.op \in Removals /\ last'.ph = "done" /\ last'.ok
      /\ \A i, j \in DOMAIN items : items[i].id = items[j].id => i = j)
       => /\ IF last'.id \in Ids(items)
             THEN \E i \in DOMAIN items :
                    /\ items[i].id = last'.id
                    /\ items' = SubSeq(items, 1, i - 1)
                                  \o SubSeq(items, i + 1, Len(items))
             ELSE items' = items
          /\ last'.alert = "none"
          /\ error' \in {error, Null}]_vars

\* a confirmed removal left the other items of the repository in place
C10_RemovedAmongOthers ==
  /\ last.op \in Removals /\ last.ph = "done" /\ last.ok
  /\ items # <<>>
  /\ last.id \notin Ids(items)
  /\ last.id \in {c.id : c \in created}

\* C14: when a rotate-key request ends in a transport failure or in a
\* response that is no success response, the held session and the persisted
\* session record are what they were and an error is shown.
C14_RotateFailureKeepsSession ==
  [][(last'.op = "rotate" /\ last'.ph = "done" /\ ~last'.ok)
       => (user' = user /\ lf_user' = lf_user /\ last'.alert = "failed")]_vars

\* C15: when a rotate-key request succeeds with {success, data: Session}, the
\* held session afterwards has the identity it had before and the credential
\* the response carries, and the persisted record equals the held session.
C15_RotateSuccessReplacesCredential ==
  [][(last'.op = "rotate" /\ last'.ph = "done" /\ last'.ok /\ user # NoUser)
       => /\ user' # NoUser
          /\ IdentityOf(user') = IdentityOf(user)
          /\ user'.apiKey = last'.data[1].apiKey
          /\ lf_user' = user']_vars

\* C16: after sign-out no session is held and the persisted record is gone,
\* so the load of the next startup yields no session.
C16_SignOutClearsStorage ==
  [][(last'.op = "ui" /\ user # NoUser /\ user' = NoUser)
       => (lf_user' = NoUser /\ LoadUser(variant, lf_user') = NoUser)]_vars

\* C17: the load at startup yields a session exactly when the stored payload
\* parses to an object that has a credential and an identity under userId or
\* under _id, and the session then carries that identity and that
\* credential; in every other case no session is held.
C17_LoadAcceptsBothIdentityNames ==
  [][(last = Boot /\ last' = Mount)
       => LET valid == /\ lf_user \in StoredObjects
                       /\ lf_user.apiKey # Undef
                       /\ (lf_user.userId # Undef \/ lf_user._id # Undef)
          IN /\ user' # NoUser <=> valid
             /\ valid => /\ IdentityOf(user') \in {lf_user._id, lf_user.userId}
                          /\ IdentityOf(user') # Undef
                          /\ user'.apiKey = lf_user.apiKey]_vars

\* C18: when the stored payload is present but cannot be parsed, the load
\* removes it: after startup storage holds nothing.
C18_MalformedPayloadPurged ==
  [][(last = Boot /\ last' = Mount /\ lf_user \in {Unparseable, UndefinedText})
       => lf_user' = NoUser]_vars

\* the search term occurs, case-insensitively, in one of the three texts
TermOccurs(item, term) ==
  \/ includes(toLowerCase(item.title), toLowerCase(term))
  \/ includes(toLowerCase(item.description), toLowerCase(term))
  \/ includes(toLowerCase(item.location), toLowerCase(term))

\* the four tests, for a given reading of the search term
PassesAllFour(item, term) ==
  /\ filter.type = "all" \/ item.type = filter.type
  /\ filter.category = "all" \/ item.category = filter.category
  /\ term = <<>> \/ TermOccurs(item, term)
  /\ ~onlyActive \/ item.status = "active"

\* position of an entry of a list without repetitions
Pos(s, x) == CHOOSE i \in DOMAIN s : s[i] = x

\* d holds the entries of s, each at most once, in the order of s
InOrderOf(d, s) ==
  /\ Range(d) \subseteq Range(s)
  /\ \A i, j \in DOMAIN d : i < j => Pos(s, d[i]) < Pos(s, d[j])

\* C11: the displayed list is, in repository order, exactly the items that
\* pass the four tests (type, category, search term as typed, active-only).
C11_DisplayedPassAllFour ==
  /\ Range(filteredItems) = {it \in Range(items) : PassesAllFour(it, searchTerm)}
  /\ InOrderOf(filteredItems, items)

\* C11 (amended): the displayed list is, in repository order, exactly the
\* items that pass the four tests, the search test being applied to the
\* search term with the white space at its two ends removed.
C11_DisplayedPassAllFourTrimmed ==
  /\ Range(filteredItems) =
       {it \in Range(items) : PassesAllFour(it, trim(searchTerm))}
  /\ InOrderOf(filteredItems, items)

\* C11 witness: a padded search term, a category and the active-only toggle
\* are set and the grid shows some of the repository, not all of it
C11_PaddedSearchNarrows ==
  /\ searchTerm # trim(searchTerm)
  /\ trim(searchTerm) # <<>>
  /\ onlyActive
  /\ filter.category # "all"
  /\ filteredItems # <<>>
  /\ Len(filteredItems) < Len(items)
  /\ Len(items) = Cardinality(Listed)

\* C12: after the Active Listings statistic is selected, every displayed
\* item has status active (a resolved item of the repository is not shown).
C12_ActiveListingsHidesResolved ==
  [][(last'.op = "onSelect" /\ last'.data = <<"active">>)
       => \A i \in DOMAIN filteredItems' : filteredItems'[i].status = "active"]_vars

\* C13: whenever a user action changes the type or the category filter, the
\* active-only toggle is off afterwards (the Active Listings statistic, which
\* sets the type to all while switching the toggle on, is left aside).
C13_FilterChangeClearsActiveOnly ==
  [][(filter' # filter /\ ~(last'.op = "onSelect" /\ last'.data = <<"active">>))
       => onlyActive' = FALSE]_vars

\* C19: resolving an API path is idempotent: resolving the result of a
\* resolution returns it unchanged, for every path and every base.
C19_ApiIdempotent ==
  api(helper, API_BASE, api(helper, API_BASE, url))
    = api(helper, API_BASE, url)

\* a root-relative path
RootRelative(p) == startsWith(p, Slash) /\ ~startsWith(p, Slash \o Slash)

\* C20: utils/api.ts returns an absolute http:// or https:// URL unchanged
\* for every base, the empty base included; with an empty base every other
\* path resolves to a path that starts at the root.
C20_AbsoluteUnchangedElseRootRelative ==
  helper = "api.ts" =>
    /\ IsAbsolute(url) =>
         (apiUtils(API_BASE, url) = url /\ fileUrl(API_BASE, url) = url)
    /\ (API_BASE = <<>> /\ ~IsAbsolute(url)) =>
         /\ RootRelative(apiUtils(API_BASE, url))
         /\ url # <<>> => RootRelative(fileUrl(API_BASE, url))

\* the operations that change what the server holds
Writes == {"create", "resolve", "delete", "rotate"}

\* the requests of these operations among the requests in flight
WritesOf(infl) ==
  [r \in {x \in BagToSet(infl) : x.op \in Writes} |-> CopiesIn(r, infl)]

\* C21: a create, resolve, delete or rotate trigger that passes its
\* preconditions sends exactly one request; a refused trigger sends none; the
\* continuation of such a request, failed or not, sends no request of these
\* operations (nothing is retried) and after a failure it sends none at all.
C21_OneRequestPerTrigger ==
  [][(last'.op \in Writes) =>
       /\ last'.ph = "call" =>
            \E r \in BagToSet(inflight') :
              r.op = last'.op /\ inflight' = Sent(inflight, r)
       /\ last'.ph = "refused" => inflight' = inflight
       /\ last'.ph = "done" =>
            \E r \in BagToSet(inflight) :
              /\ r.op = last'.op
              /\ WritesOf(inflight') = WritesOf(inflight (-) SetToBag({r}))
              /\ last'.alert = "failed" =>
                   inflight' = inflight (-) SetToBag({r})]_vars

\* C21 witness: a delete has failed and nothing is in flight after it
C21_FailedDeleteNotRetried ==
  /\ last.op = "delete" /\ last.ph = "done" /\ last.alert = "failed"
  /\ inflight = EmptyBag

\* what the user sees of a failure: an alert, the load error, or the sign-in
\* dialog opening on a refused post
ErrorAlerts == {"failed", "validation"}

\* C22: every loadAll, create, resolve, delete or rotate attempt that is
\* refused before its request, or whose response is no success response (a
\* transport failure included), shows the user an error signal.
C22_FailureIsSignalled ==
  [][(/\ last'.op \in Writes \cup {"fetch"}
      /\ \/ last'.ph = "refused"
         \/ last'.ph = "done" /\ ~last'.ok)
       => \/ last'.alert \in ErrorAlerts
          \/ last'.op = "fetch" /\ error' # Null
          \/ showAuth' /\ ~showAuth]_vars

\* C23: after a confirmed resolve or delete of an item no selection
\* references that item, also when it was selected while the request was in
\* flight.
C23_ConfirmedRemovalClearsSelection ==
  [][(last'.op \in Removals /\ last'.ph = "done" /\ last'.ok)
       => selectedItem'.id # last'.id]_vars

\* C25: a confirmed resolve or delete of an item leaves the selection of a
\* different item as it is, also when that item was selected while the request
\* was in flight.
C25_OtherSelectionKept ==
  [][(/\ last'.op \in Removals /\ last'.ph = "done" /\ last'.ok
      /\ selectedItem # NoItem /\ selectedItem.id # last'.id)
       => selectedItem' = selectedItem]_vars

\* C24: the completion of a request changes nothing once the component that
\* sent it is gone: the answer to a sign-in that arrives after the sign-in
\* dialog was closed leaves the session, the storage and the view as they are.
C24_NoMutationAfterLifetime ==
  [][(last'.op = "auth" /\ last'.ph = "done" /\ ~showAuth)
       => /\ user' = user
          /\ lf_user' = lf_user
          /\ view' = view
          /\ pendingPost' = pendingPost]_vars

\* C26: after a sign-out no session is held or persisted again before a
\* sign-in succeeds: the completion of a rotate request that finds no session
\* (the user signed out while it was in flight) sets no session and writes
\* nothing to storage.
C26_RotateAfterSignOutRestoresNothing ==
  [][(last'.op = "rotate" /\ last'.ph = "done" /\ user = NoUser)
       => (user' = NoUser /\ lf_user' = lf_user)]_vars

\* C27: the item dialog shows a success notification for a resolve or delete
\* only once the server has confirmed it; none is shown for an action that
\* fails or is refused before its request.
C27_SuccessToastOnlyAfterConfirmation ==
  [][(last'.alert = "success-toast")
       => (last'.op \in Removals /\ last'.ph = "done" /\ last'.ok)]_vars

\* the identity canManage and the rotate-key path read from a session:
\* user._id in App.tsx and part_002, user.userId in part_003
SessionId(v, usr) ==
  IF usr = NoUser THEN Undef
  ELSE IF v = "P3" THEN usr.userId ELSE usr._id

\* items to try canManage on: one per owner, one without owner
Owned == [id : {1}, ownerId : Users \cup {"u0", Undef}]

\* C28: right after a successful sign-in or sign-up, the session held and the
\* session the load effect would build at the next startup from the record
\* just persisted carry the same identity: canManage gives the same answer
\* for every item and the rotate-key path names the same user.
C28_SessionSurvivesReload ==
  [][(last'.op = "auth" /\ last'.ph = "done" /\ last'.ok)
       => LET loaded == LoadUser(variant, lf_user')
          IN /\ user' # NoUser /\ loaded # NoUser
             /\ SessionId(variant, loaded) = SessionId(variant, user')
             /\ \A it \in Owned :
                  CanManage(variant, loaded, it) = CanManage(variant, user', it)]_vars

\* C29: a successful sign-in switches the view to the post form only when the
\* dialog was opened by a blocked post attempt: a sign-in submitted in a
\* dialog the header opened, answered while that dialog is shown, leaves the
\* view as it is, also after an earlier dialog of a blocked post attempt was
\* dismissed.
C29_HeaderSignInKeepsView ==
  [][(/\ last.op = "auth" /\ last.ph = "call"
      /\ Pending = 1 /\ showAuth /\ authOpenedBy = "header"
      /\ last'.op = "auth" /\ last'.ph = "done" /\ last'.ok)
       => view' = view]_vars

\* C30: in part_003, after one change of the repository and while the server
\* keeps its list, the automatic refetches come to an end: from some point on
\* no request is in flight and the loading flag is off.
C30_RefetchChainEnds == <>[](inflight = EmptyBag /\ ~isLoading)

\* C30 witness: the chain has ended with the server's list in the repository,
\* which has another length than it had after the change
C30_ChainEndedOnServerList ==
  /\ variant = "P3" /\ inflight = EmptyBag /\ ~isLoading
  /\ last.op = "fetch" /\ last.ph = "done" /\ last.ok
  /\ items = NewestFirst(Catalog \cup created)
  /\ created # {}

====
